---- MODULE Spec2Model ----
(***************************************************************************)
(* OTP service: the in-memory OTP cache (package backend, MemoryOTPCache)  *)
(* with its background cleanup goroutine, and the two HTTP handlers that   *)
(* use it (generateOTP, validateOTP).                                      *)
(*                                                                         *)
(* Every cache method takes c.mu.Lock() on entry and releases it on        *)
(* return, so a method is two steps: acquiring the mutex, and the body     *)
(* together with the deferred Unlock.  What a handler computes before its  *)
(* first cache call or from a method's return value touches no shared      *)
(* state and is folded into the neighbouring step of the cache method.     *)
(*                                                                         *)
(* Time is counted in minutes and kept relative to the present instant:    *)
(* time.Now() is Now, and a stored expiresAt is its distance from Now      *)
(* (negative once it lies in the past).  The program only ever compares a  *)
(* stored time with time.Now(), so a minute passing moves every stored     *)
(* time one minute towards the past.  A time more than MaxOverdue minutes  *)
(* in the past is recorded as MaxOverdue minutes in the past.              *)
(***************************************************************************)
EXTENDS Integers, FiniteSets, Sequences, TLC

\* ---------------------------------------------------------------- bounds
MaxOverdue == 2

Procs == {"r1", "r2"}
Phones == {"+1555", "+1666"}
Codes == {"1111", "4821"}

\* ------------------------------------------------------ program constants
Minute == 1
otpExpiration == 5 * Minute
cleanupInterval == 1 * Minute

ErrNil == "nil"
ErrOTPExpired == "OTP expired"
ErrOTPNotFound == "OTP not found"

StatusOK == 200
StatusBadRequest == 400
StatusNotFound == 404
StatusInternalServerError == 500

NoHolder == "unlocked"
Cleaner == "cleanup"

VARIABLES
    store,      \* c.store: map[string]otpEntry, a function on the phones that have an entry
    mu,         \* c.mu: the goroutine holding the mutex, or NoHolder
    tick,       \* ticker.C (capacity 1): TRUE when a tick is waiting to be received
    cpc,        \* position of the cleanup goroutine: "wait", "lock", "sweep"
    pc,         \* position of each request goroutine
    req,        \* the request each request goroutine is serving
    out,        \* the response of each request goroutine's last request
    valids,     \* history: validations answered valid=true since the latest SetOTP, per phone
    fresh,      \* history: the code this validation matched is of the latest SetOTP
    gen         \* a call of generateSecureOTP: what its random sources yield, and its result

vars == <<store, mu, tick, cpc, pc, req, out, valids, fresh, gen>>

\* a request goroutine between requests
NoReq == [op |-> "", phone |-> "", otp |-> "", delivered |-> FALSE]

\* make(map[string]otpEntry)
EmptyMap == [q \in {} |-> [otp |-> "", expiresAt |-> 0]]

\* ------------------------------------------------------------ otpEntry, map
otpEntry(otp, expiresAt) == [otp |-> otp, expiresAt |-> expiresAt]

\* faulty variant: the whole map is cleared
MapDelete_Clear(st, phone) == [q \in {} |-> st[q]]

\* delete(c.store, phone)
MapDelete(st, phone) == [q \in DOMAIN st \ {phone} |-> st[q]]

\* c.store[phone] = e
MapPut(st, phone, e) == [q \in DOMAIN st \cup {phone} |-> IF q = phone THEN e ELSE st[q]]

\* time.Now(): the present instant, the origin of the stored times
Now == 0

\* time.Time.After: t is strictly later than u
After(t, u) == t > u

\* ------------------------------------------------- MemoryOTPCache methods
\* Each is the method's body under the lock at time t: the store it leaves
\* and what it returns.
\* faulty variant: an existing entry is kept
SetOTP_KeepsExisting(st, phone, otp, t) ==
    [store |-> IF phone \in DOMAIN st THEN st
               ELSE MapPut(st, phone, otpEntry(otp, t + otpExpiration)),
     val |-> "", err |-> ErrNil]

\* faulty variant: an existing entry keeps its expiry
SetOTP_KeepsExpiry(st, phone, otp, t) ==
    [store |-> MapPut(st, phone, otpEntry(otp, IF phone \in DOMAIN st THEN st[phone].expiresAt
                                               ELSE t + otpExpiration)),
     val |-> "", err |-> ErrNil]

SetOTP(st, phone, otp, t) ==
    [store |-> MapPut(st, phone, otpEntry(otp, t + otpExpiration)),
     val |-> "", err |-> ErrNil]

\* faulty variant: the expired entry is reported but left in the map
GetOTP_KeepsExpired(st, phone, t) ==
    IF phone \notin DOMAIN st
    THEN [store |-> st, val |-> "", err |-> ErrOTPNotFound]
    ELSE IF After(t, st[phone].expiresAt)
         THEN [store |-> st, val |-> "", err |-> ErrOTPExpired]
         ELSE [store |-> st, val |-> st[phone].otp, err |-> ErrNil]

\* faulty variant: no expiry check
GetOTP_NoExpiryCheck(st, phone, t) ==
    IF phone \notin DOMAIN st
    THEN [store |-> st, val |-> "", err |-> ErrOTPNotFound]
    ELSE [store |-> st, val |-> st[phone].otp, err |-> ErrNil]

\* faulty variant: a read consumes the entry
GetOTP_Consumes(st, phone, t) ==
    IF phone \notin DOMAIN st
    THEN [store |-> st, val |-> "", err |-> ErrOTPNotFound]
    ELSE IF After(t, st[phone].expiresAt)
         THEN [store |-> MapDelete(st, phone), val |-> "", err |-> ErrOTPExpired]
         ELSE [store |-> MapDelete(st, phone), val |-> st[phone].otp, err |-> ErrNil]

\* faulty variant: the two errors swapped
GetOTP_ErrorsSwapped(st, phone, t) ==
    IF phone \notin DOMAIN st
    THEN [store |-> st, val |-> "", err |-> ErrOTPExpired]
    ELSE IF After(t, st[phone].expiresAt)
         THEN [store |-> MapDelete(st, phone), val |-> "", err |-> ErrOTPNotFound]
         ELSE [store |-> st, val |-> st[phone].otp, err |-> ErrNil]

\* faulty variant: a read restarts the expiry window
GetOTP_Refreshes(st, phone, t) ==
    IF phone \notin DOMAIN st
    THEN [store |-> st, val |-> "", err |-> ErrOTPNotFound]
    ELSE IF After(t, st[phone].expiresAt)
         THEN [store |-> MapDelete(st, phone), val |-> "", err |-> ErrOTPExpired]
         ELSE [store |-> MapPut(st, phone, otpEntry(st[phone].otp, t + otpExpiration)),
               val |-> st[phone].otp, err |-> ErrNil]

GetOTP(st, phone, t) ==
    IF phone \notin DOMAIN st
    THEN [store |-> st, val |-> "", err |-> ErrOTPNotFound]
    ELSE IF After(t, st[phone].expiresAt)
         THEN [store |-> MapDelete(st, phone), val |-> "", err |-> ErrOTPExpired]
         ELSE [store |-> st, val |-> st[phone].otp, err |-> ErrNil]

\* faulty variant: nothing is removed
DeleteOTP_Noop(st, phone) ==
    [store |-> st, val |-> "", err |-> ErrNil]

\* faulty variant: deleting an absent entry is an error
DeleteOTP_FailsIfAbsent(st, phone) ==
    IF phone \in DOMAIN st
    THEN [store |-> MapDelete(st, phone), val |-> "", err |-> ErrNil]
    ELSE [store |-> st, val |-> "", err |-> ErrOTPNotFound]

DeleteOTP(st, phone) ==
    [store |-> MapDelete(st, phone), val |-> "", err |-> ErrNil]

\* faulty variant: the sweep removes nothing
Sweep_Noop(st, t) == st

\* faulty variant: the sweep also removes an entry at the instant of its expiresAt
Sweep_AtExpiry(st, t) ==
    [q \in {x \in DOMAIN st : t < st[x].expiresAt} |-> st[q]]

\* the loop body of cleanup, under the lock with now == t
Sweep(st, t) ==
    [q \in {x \in DOMAIN st : ~After(t, st[x].expiresAt)} |-> st[q]]

\* ------------------------------------------------------------- responses
\* c.JSON(status, gin.H{"valid": valid, "error" or "message": msg})
Response(status, valid, msg) == [status |-> status, valid |-> valid, msg |-> msg]

NoOut == Response(0, FALSE, "")

\* faulty variant: every failed GetOTP is answered with one generic failure
GetErrorResponse_Collapsed(err) == Response(StatusBadRequest, FALSE, "Invalid OTP")

\* validateOTP's answer to a failed GetOTP (the switch on err)
GetErrorResponse(err) ==
    IF err = ErrOTPExpired THEN Response(StatusBadRequest, FALSE, "OTP has expired")
    ELSE IF err = ErrOTPNotFound THEN Response(StatusNotFound, FALSE, "OTP not found")
    ELSE Response(StatusInternalServerError, FALSE, "Internal server error")

IncorrectResponse == Response(StatusOK, FALSE, "OTP is incorrect")
ValidResponse == Response(StatusOK, TRUE, "")
SentResponse == Response(StatusOK, FALSE, "OTP sent successfully")
SendFailedResponse == Response(StatusInternalServerError, FALSE, "Failed to send OTP")

\* the outcome a validation response stands for
Outcome(o) ==
    IF o.valid THEN "Valid"
    ELSE IF o.msg = "OTP is incorrect" THEN "Incorrect"
    ELSE IF o.msg = "OTP not found" THEN "NotFound"
    ELSE IF o.msg = "OTP has expired" THEN "Expired"
    ELSE "InternalError"

\* ------------------------------------------------------ generateSecureOTP
\* var b [2]byte: the values of a byte
Bytes == 0..255

\* fallbackRand.Intn(9000)
FallbackDraws == 0..8999

\* binary.BigEndian.Uint16(b[:]), a uint16
Uint16(b) == (b[1] * 256 + b[2]) % 65536

\* the decimal digits as characters; a Go string is the sequence of its characters
DigitChars == <<"0", "1", "2", "3", "4", "5", "6", "7", "8", "9">>

\* strconv.Itoa
RECURSIVE Itoa(_)
Itoa(n) ==
    IF n < 0 THEN <<"-">> \o Itoa(0 - n)
    ELSE IF n < 10 THEN <<DigitChars[n + 1]>>
    ELSE Append(Itoa(n \div 10), DigitChars[(n % 10) + 1])

\* faulty variant: the 16-bit value is reduced modulo 10000
SecureCode_Mod10000(b) == Itoa(((Uint16(b) % 10000) % 65536) + 1000)

\* the primary path: num := Uint16(b) % 9000 in uint16; strconv.Itoa(int(num) + 1000)
SecureCode(b) == Itoa(((Uint16(b) % 9000) % 65536) + 1000)

\* the fallback path: strconv.Itoa(1000 + fallbackRand.Intn(9000))
FallbackCode(draw) == Itoa(1000 + draw)

\* generateSecureOTP: ok is rand.Read returning no error, b the bytes it
\* filled, draw what fallbackRand.Intn(9000) would return
generateSecureOTP(ok, b, draw) == IF ok THEN SecureCode(b) ELSE FallbackCode(draw)

\* no result yet
NoCode == << >>

\* no call of generateSecureOTP under way
NoGen == [ok |-> TRUE, b |-> <<0, 0>>, draw |-> 0, code |-> NoCode]

\* ------------------------------------------------------------------ Init
\* NewMemoryOTPCache: an empty map, the cleanup goroutine waiting on its ticker
Init ==
    /\ store = EmptyMap
    /\ mu = NoHolder
    /\ tick = FALSE
    /\ cpc = "wait"
    /\ pc = [p \in Procs |-> "idle"]
    /\ req = [p \in Procs |-> NoReq]
    /\ out = [p \in Procs |-> NoOut]
    /\ valids = [i \in Phones |-> 0]
    /\ fresh = [p \in Procs |-> FALSE]
    /\ gen = NoGen

\* ------------------------------------------------------------ generateOTP
\* generateOTP calls otpCache.SetOTP only when CreateMessage returned no error
\* faulty variant: the code is stored whether or not the message was delivered
ReachesSetOTP_Always(delivered) == TRUE

ReachesSetOTP(delivered) == delivered

\* POST /otp, not stored: generateSecureOTP(), CreateMessage, then the handler
\* answers 500 and returns before otpCache.SetOTP.
GenerateSendFailed(p) ==
    /\ pc[p] = "idle"
    /\ \E delivered \in BOOLEAN : ~ReachesSetOTP(delivered)
    /\ out' = [out EXCEPT ![p] = SendFailedResponse]
    /\ UNCHANGED <<store, mu, tick, cpc, pc, req, valids, fresh, gen>>

\* POST /otp, stored: generateSecureOTP(), CreateMessage, and otpCache.SetOTP
\* takes c.mu.
GenerateLock(p) ==
    /\ pc[p] = "idle"
    /\ mu = NoHolder
    /\ \E phone \in Phones, otp \in Codes, delivered \in BOOLEAN :
          /\ ReachesSetOTP(delivered)
          /\ req' = [req EXCEPT ![p] = [op |-> "generateOTP", phone |-> phone,
                                        otp |-> otp, delivered |-> delivered]]
    /\ mu' = p
    /\ pc' = [pc EXCEPT ![p] = "setL"]
    /\ out' = [out EXCEPT ![p] = NoOut]
    /\ UNCHANGED <<store, tick, cpc, valids, fresh, gen>>

\* SetOTP's body and deferred Unlock; generateOTP then answers 200.
SetBody(p) ==
    /\ pc[p] = "setL"
    /\ mu = p
    /\ store' = SetOTP(store, req[p].phone, req[p].otp, Now).store
    /\ mu' = NoHolder
    /\ pc' = [pc EXCEPT ![p] = "idle"]
    /\ out' = [out EXCEPT ![p] = SentResponse]
    /\ valids' = [valids EXCEPT ![req[p].phone] = 0]
    /\ fresh' = [q \in Procs |-> fresh[q] /\ req[q].phone # req[p].phone]
    /\ req' = [req EXCEPT ![p] = NoReq]
    /\ UNCHANGED <<tick, cpc, gen>>

\* ------------------------------------------------------------ validateOTP
\* validateOTP's answer to what GetOTP returned for the submitted code: the
\* response, or NoOut when it goes on to DeleteOTP
AfterGet(r, otp) ==
    IF r.err # ErrNil THEN GetErrorResponse(r.err)
    ELSE IF r.val # otp THEN IncorrectResponse
    ELSE NoOut

\* POST /otp/validate: bind the request; otpCache.GetOTP takes c.mu.
ValidateLock(p) ==
    /\ pc[p] = "idle"
    /\ mu = NoHolder
    /\ \E phone \in Phones, otp \in Codes :
          req' = [req EXCEPT ![p] = [op |-> "validateOTP", phone |-> phone,
                                     otp |-> otp, delivered |-> FALSE]]
    /\ mu' = p
    /\ pc' = [pc EXCEPT ![p] = "getL"]
    /\ out' = [out EXCEPT ![p] = NoOut]
    /\ UNCHANGED <<store, tick, cpc, valids, fresh, gen>>

\* faulty variant: the error returns of GetOTP leave c.mu locked
GetBody_LeaksOnError(p) ==
    /\ pc[p] = "getL"
    /\ mu = p
    /\ LET r == GetOTP(store, req[p].phone, Now)
           a == AfterGet(r, req[p].otp) IN
          /\ store' = r.store
          /\ out' = [out EXCEPT ![p] = a]
          /\ mu' = IF r.err # ErrNil THEN p ELSE NoHolder
          /\ IF a # NoOut
             THEN /\ pc' = [pc EXCEPT ![p] = "idle"]
                  /\ req' = [req EXCEPT ![p] = NoReq]
                  /\ UNCHANGED fresh
             ELSE /\ pc' = [pc EXCEPT ![p] = "del"]
                  /\ fresh' = [fresh EXCEPT ![p] = TRUE]
                  /\ UNCHANGED req
    /\ UNCHANGED <<tick, cpc, valids, gen>>

\* GetOTP's body and deferred Unlock, then validateOTP's switch on the error
\* and its comparison storedOTP != req.Otp; on a match it goes on to DeleteOTP.
GetBody(p) ==
    /\ pc[p] = "getL"
    /\ mu = p
    /\ LET r == GetOTP(store, req[p].phone, Now)
           a == AfterGet(r, req[p].otp) IN
          /\ store' = r.store
          /\ out' = [out EXCEPT ![p] = a]
          /\ IF a # NoOut
             THEN /\ pc' = [pc EXCEPT ![p] = "idle"]
                  /\ req' = [req EXCEPT ![p] = NoReq]
                  /\ UNCHANGED fresh
             ELSE /\ pc' = [pc EXCEPT ![p] = "del"]
                  /\ fresh' = [fresh EXCEPT ![p] = TRUE]
                  /\ UNCHANGED req
    /\ mu' = NoHolder
    /\ UNCHANGED <<tick, cpc, valids, gen>>

\* c.mu.Lock() at the head of DeleteOTP
DelLock(p) ==
    /\ pc[p] = "del"
    /\ mu = NoHolder
    /\ mu' = p
    /\ pc' = [pc EXCEPT ![p] = "delL"]
    /\ UNCHANGED <<store, tick, cpc, req, out, valids, fresh, gen>>

\* DeleteOTP's body and deferred Unlock; validateOTP then answers valid=true.
DelBody(p) ==
    /\ pc[p] = "delL"
    /\ mu = p
    /\ store' = DeleteOTP(store, req[p].phone).store
    /\ mu' = NoHolder
    /\ pc' = [pc EXCEPT ![p] = "idle"]
    /\ out' = [out EXCEPT ![p] = ValidResponse]
    /\ valids' = [valids EXCEPT ![req[p].phone] = IF fresh[p] THEN @ + 1 ELSE @]
    /\ fresh' = [fresh EXCEPT ![p] = FALSE]
    /\ req' = [req EXCEPT ![p] = NoReq]
    /\ UNCHANGED <<tick, cpc, gen>>

\* ---------------------------------------------------------------- cleanup
\* a stored time, one ticker interval later
Past(t) ==
    IF t - cleanupInterval < 0 - MaxOverdue THEN 0 - MaxOverdue ELSE t - cleanupInterval

\* A minute passes; the ticker sends on ticker.C unless a tick is still waiting.
Tick ==
    /\ store' = [i \in DOMAIN store |-> [store[i] EXCEPT !.expiresAt = Past(@)]]
    /\ tick' = TRUE
    /\ UNCHANGED <<mu, cpc, pc, req, out, valids, fresh, gen>>

\* for range ticker.C
CleanupRecv ==
    /\ cpc = "wait"
    /\ tick
    /\ tick' = FALSE
    /\ cpc' = "lock"
    /\ UNCHANGED <<store, mu, pc, req, out, valids, fresh, gen>>

\* faulty variant: cleanup goes on to sweep without waiting for the mutex
CleanupLock_NoWait ==
    /\ cpc = "lock"
    /\ mu' = Cleaner
    /\ cpc' = "sweep"
    /\ UNCHANGED <<store, tick, pc, req, out, valids, fresh, gen>>

\* c.mu.Lock() in cleanup
CleanupLock ==
    /\ cpc = "lock"
    /\ mu = NoHolder
    /\ mu' = Cleaner
    /\ cpc' = "sweep"
    /\ UNCHANGED <<store, tick, pc, req, out, valids, fresh, gen>>

\* now := time.Now(), the range over c.store, c.mu.Unlock()
CleanupSweep ==
    /\ cpc = "sweep"
    /\ mu = Cleaner
    /\ store' = Sweep(store, Now)
    /\ mu' = NoHolder
    /\ cpc' = "wait"
    /\ UNCHANGED <<tick, pc, req, out, valids, fresh, gen>>

Next ==
    \/ \E p \in Procs : GenerateSendFailed(p)
    \/ \E p \in Procs : GenerateLock(p)
    \/ \E p \in Procs : ValidateLock(p)
    \/ \E p \in Procs : SetBody(p)
    \/ \E p \in Procs : GetBody(p)
    \/ \E p \in Procs : DelLock(p)
    \/ \E p \in Procs : DelBody(p)
    \/ Tick
    \/ CleanupRecv
    \/ CleanupLock
    \/ CleanupSweep

Spec == Init /\ [][Next]_vars

\* -------------------------------------------------------------- TimedSpec
\* The same program on a machine where a sweep takes less than a ticker
\* interval: the next minute does not pass while a tick is waiting to be
\* received or the sweep it started is still running.
TickTimed ==
    /\ cpc = "wait"
    /\ ~tick
    /\ Tick

NextTimed ==
    \/ \E p \in Procs : GenerateSendFailed(p)
    \/ \E p \in Procs : GenerateLock(p)
    \/ \E p \in Procs : ValidateLock(p)
    \/ \E p \in Procs : SetBody(p)
    \/ \E p \in Procs : GetBody(p)
    \/ \E p \in Procs : DelLock(p)
    \/ \E p \in Procs : DelBody(p)
    \/ TickTimed
    \/ CleanupRecv
    \/ CleanupLock
    \/ CleanupSweep

\* the request goroutine inside a cache method finishes it and unlocks
Release == \E p \in Procs : SetBody(p) \/ GetBody(p) \/ DelBody(p)

\* Time passes; a goroutine that can run does; the goroutine inside a cache
\* method finishes it; sync.Mutex hands the lock to a goroutine that keeps
\* waiting for it (starvation mode), so cleanup gets c.mu.
Fairness ==
    /\ WF_vars(TickTimed)
    /\ WF_vars(CleanupRecv)
    /\ SF_vars(CleanupLock)
    /\ WF_vars(CleanupSweep)
    /\ WF_vars(Release)

TimedSpec == Init /\ [][NextTimed]_vars /\ Fairness

\* --------------------------------------------------------------- LiveSpec
\* The goroutine inside a cache method or the sweep finishes it, and
\* sync.Mutex hands the lock to a goroutine that keeps waiting in c.mu.Lock()
\* (starvation mode): a request goroutine at the head of DeleteOTP, or cleanup.
\* Nothing is assumed about time passing or requests arriving.
LockFairness ==
    /\ WF_vars(Release)
    /\ WF_vars(CleanupSweep)
    /\ SF_vars(CleanupLock)
    /\ \A p \in Procs : SF_vars(DelLock(p))

LiveSpec == Init /\ [][NextTimed]_vars /\ LockFairness

TypeOK ==
    /\ DOMAIN store \subseteq Phones
    /\ \A i \in DOMAIN store :
          store[i].otp \in Codes /\ store[i].expiresAt \in (0 - MaxOverdue)..otpExpiration
    /\ mu \in Procs \cup {NoHolder, Cleaner}
    /\ tick \in BOOLEAN
    /\ cpc \in {"wait", "lock", "sweep"}
    /\ \A p \in Procs : pc[p] \in {"idle", "setL", "getL", "del", "delL"}
    /\ \A i \in Phones : valids[i] \in 0..Cardinality(Procs)

\* ---------------------------------------------------------------- GenSpec
\* generateSecureOTP on its own, for every value its random sources can yield:
\* either crypto/rand fills b, or it fails and fallbackRand is drawn from.
GenInit ==
    /\ store = EmptyMap
    /\ mu = NoHolder
    /\ tick = FALSE
    /\ cpc = "wait"
    /\ pc = [p \in Procs |-> "idle"]
    /\ req = [p \in Procs |-> NoReq]
    /\ out = [p \in Procs |-> NoOut]
    /\ valids = [i \in Phones |-> 0]
    /\ fresh = [p \in Procs |-> FALSE]
    /\ \/ \E b0, b1 \in Bytes :
             gen = [ok |-> TRUE, b |-> <<b0, b1>>, draw |-> 0, code |-> NoCode]
       \/ \E draw \in FallbackDraws :
             gen = [ok |-> FALSE, b |-> <<0, 0>>, draw |-> draw, code |-> NoCode]

\* rand.Read succeeded: the code is computed from b
GenSecure ==
    /\ gen.code = NoCode
    /\ gen.ok
    /\ gen' = [gen EXCEPT !.code = generateSecureOTP(gen.ok, gen.b, gen.draw)]
    /\ UNCHANGED <<store, mu, tick, cpc, pc, req, out, valids, fresh>>

\* rand.Read failed: the code is computed from the fallback draw
GenFallback ==
    /\ gen.code = NoCode
    /\ ~gen.ok
    /\ gen' = [gen EXCEPT !.code = generateSecureOTP(gen.ok, gen.b, gen.draw)]
    /\ UNCHANGED <<store, mu, tick, cpc, pc, req, out, valids, fresh>>

GenNext == GenSecure \/ GenFallback

GenSpec == GenInit /\ [][GenNext]_vars

\* ================================================================ claims
\* the entry of phone i is in the table and has not expired (GetOTP returns it)
Live(i) == i \in DOMAIN store /\ ~After(Now, store[i].expiresAt)

\* ------------------------------------------------------------------- C1
\* C1: for one issuance SetOTP(i, c), at most one of the validation requests
\* that matched its code is answered valid=true, whatever the interleaving.
C1_SingleUseConcurrent == \A i \in Phones : valids[i] <= 1

C4_SequentialSingleUse ==
    [][\A p \in Procs :
          /\ GetBody(p) =>
                LET i == req[p].phone IN
                /\ (Live(i) /\ store[i].otp = req[p].otp) => pc'[p] = "del"
                /\ valids[i] >= 1 => Outcome(out'[p]) = "NotFound"
          /\ DelBody(p) =>
                /\ Outcome(out'[p]) = "Valid"
                /\ req[p].phone \notin DOMAIN store']_vars

\* a validation was answered valid=true, and a second validation of the same
\* phone is inside GetOTP with no SetOTP since
C4_Witness ==
    \E p, q \in Procs :
        /\ pc[q] = "idle" /\ Outcome(out[q]) = "Valid"
        /\ pc[p] = "getL" /\ valids[req[p].phone] = 1

\* ------------------------------------------------------------------- C5
\* C5: a validation of (i, x) with x different from the live stored code is
\* answered "OTP is incorrect" and leaves the table unchanged, so the entry
\* keeps its code and expiresAt; a validation with the stored code that finds
\* the entry live goes on to delete it and is answered valid=true.
C5_IncorrectKeepsEntry ==
    [][\A p \in Procs :
          /\ GetBody(p) =>
                LET i == req[p].phone IN
                /\ (Live(i) /\ store[i].otp # req[p].otp) =>
                      /\ Outcome(out'[p]) = "Incorrect"
                      /\ pc'[p] = "idle"
                      /\ store' = store
                /\ (Live(i) /\ store[i].otp = req[p].otp) =>
                      /\ pc'[p] = "del"
                      /\ store' = store
          /\ DelBody(p) => out'[p] = ValidResponse]_vars

\* one validation was answered "OTP is incorrect", another valid=true
C5_Witness ==
    \E p, q \in Procs :
        /\ pc[p] = "idle" /\ Outcome(out[p]) = "Incorrect"
        /\ pc[q] = "idle" /\ Outcome(out[q]) = "Valid"

\* ------------------------------------------------------------------- C6
\* C6: an issuance whose delivery failed answers 500 and leaves the table as
\* it was; SetOTP runs only for a request whose message was delivered.
C6_NoCodeWithoutDelivery ==
    [][\A p \in Procs :
          /\ GenerateSendFailed(p) =>
                (store' = store /\ out'[p] = SendFailedResponse /\ pc'[p] = "idle")
          /\ GenerateLock(p) => (store' = store /\ req'[p].delivered)
          /\ SetBody(p) => req[p].delivered]_vars

\* one issuance failed to deliver and stored nothing, another was delivered
\* and stored its code
C6_Witness ==
    \E p, q \in Procs :
        /\ pc[p] = "idle" /\ out[p] = SendFailedResponse
        /\ pc[q] = "idle" /\ out[q] = SentResponse
        /\ Cardinality(DOMAIN store) = 1

\* ------------------------------------------------------------------- C7
\* C7: in the state SetOTP(i, c) leaves, GetOTP(i) returns c with no error
\* and changes nothing.
C7_GetAfterSet ==
    [][\A p \in Procs : SetBody(p) =>
          GetOTP(store', req[p].phone, Now)
              = [store |-> store', val |-> req[p].otp, err |-> ErrNil]]_vars

\* GetOTP has returned the code of an entry set this minute to a validation
C7_Witness ==
    \E p \in Procs :
        /\ pc[p] = "del" /\ fresh[p]
        /\ req[p].phone \in DOMAIN store
        /\ store[req[p].phone] = otpEntry(req[p].otp, Now + otpExpiration)

\* ------------------------------------------------------------------- C8
\* C8: SetOTP(i, c2) over an entry (i, c1), c1 # c2, replaces it: the table
\* keeps one entry per phone and the same phones, the entry of i is c2 expiring
\* otpExpiration after this SetOTP, GetOTP(i) returns c2, and a validation of
\* (i, c1) is answered "OTP is incorrect".
C8_Overwrite ==
    [][\A p \in Procs : SetBody(p) =>
          LET i == req[p].phone
              c2 == req[p].otp
              r == GetOTP(store', i, Now) IN
          /\ DOMAIN store' = DOMAIN store \cup {i}
          /\ \A j \in DOMAIN store \ {i} : store'[j] = store[j]
          /\ store'[i] = otpEntry(c2, Now + otpExpiration)
          /\ r.val = c2 /\ r.err = ErrNil
          /\ \A c1 \in Codes \ {c2} : Outcome(AfterGet(r, c1)) = "Incorrect"]_vars

\* a validation matched the code c1 of phone i, and since then SetOTP has
\* replaced the entry of i by another code, set this minute
C8_Witness ==
    \E p \in Procs :
        /\ pc[p] = "del" /\ ~fresh[p]
        /\ req[p].phone \in DOMAIN store
        /\ store[req[p].phone].otp # req[p].otp
        /\ store[req[p].phone].expiresAt = Now + otpExpiration

\* ------------------------------------------------------------------- C9
\* C9: GetOTP(i) for a phone with no entry in the table fails with "OTP not
\* found" and leaves the table unchanged; the validation answers "OTP not found".
C9_AbsentNotFound ==
    [][\A p \in Procs : GetBody(p) =>
          LET i == req[p].phone IN
          i \notin DOMAIN store =>
              /\ GetOTP(store, i, Now) = [store |-> store, val |-> "", err |-> ErrOTPNotFound]
              /\ store' = store
              /\ out'[p] = GetErrorResponse(ErrOTPNotFound)
              /\ Outcome(out'[p]) = "NotFound"]_vars

\* one validation consumed the only code in the table, and another was
\* answered "OTP not found"
C9_Witness ==
    \E p, q \in Procs :
        /\ pc[p] = "idle" /\ out[p] = GetErrorResponse(ErrOTPNotFound)
        /\ pc[q] = "idle" /\ out[q] = ValidResponse
        /\ store = EmptyMap

\* ------------------------------------------------------------------ C10
\* the entry of phone i is in the table past its expiresAt
Overdue(i) == i \in DOMAIN store /\ After(Now, store[i].expiresAt)

\* C10: no entry stays in the table more than one ticker interval past its
\* expiresAt, an entry past its expiresAt is removed whether or not a request
\* touches its phone again, and the sweeps recur forever.
C10_BackgroundEviction ==
    /\ [](\A i \in DOMAIN store : store[i].expiresAt >= Now - cleanupInterval)
    /\ \A i \in Phones : Overdue(i) ~> ~Overdue(i)
    /\ []<>(cpc = "sweep")

\* both request goroutines last stored a code, nothing has asked for either
\* code since, and cleanup has emptied the table
C10_Witness ==
    /\ \A p \in Procs : pc[p] = "idle" /\ out[p] = SentResponse
    /\ store = EmptyMap
    /\ cpc = "wait"

\* ------------------------------------------------------------------ C11
\* C11: a validation with a code different from the live stored code is
\* answered with status 400 and valid=false, the status class of an expired
\* code; a phone with no entry is answered 404; the stored code is answered
\* 200 with valid=true.
C11_IncorrectIs400 ==
    [][\A p \in Procs :
          /\ GetBody(p) =>
                LET i == req[p].phone IN
                /\ (Live(i) /\ store[i].otp # req[p].otp) =>
                      /\ out'[p].status = StatusBadRequest
                      /\ out'[p].valid = FALSE
                      /\ out'[p].status = GetErrorResponse(ErrOTPExpired).status
                /\ (i \notin DOMAIN store) => out'[p].status = StatusNotFound
          /\ DelBody(p) => (out'[p].status = StatusOK /\ out'[p].valid)]_vars

\* ------------------------------------------------------------------ C12
\* the outcome of the validation GetOTP is about to serve for goroutine p
TrueOutcome(p) ==
    LET i == req[p].phone IN
    IF i \notin DOMAIN store THEN "NotFound"
    ELSE IF After(Now, store[i].expiresAt) THEN "Expired"
    ELSE IF store[i].otp # req[p].otp THEN "Incorrect"
    ELSE "Valid"

\* C12: the responses for Valid, Incorrect, NotFound and Expired differ
\* pairwise in status code together with body, every validation with a given
\* outcome is answered with the one response of that outcome, and the outcome
\* read back from the response is the outcome that occurred.
C12_DistinctStableResponses ==
    [][/\ Cardinality({ValidResponse, IncorrectResponse,
                       GetErrorResponse(ErrOTPNotFound),
                       GetErrorResponse(ErrOTPExpired)}) = 4
       /\ \A p \in Procs :
             /\ GetBody(p) =>
                   LET t == TrueOutcome(p) IN
                   /\ t = "NotFound" => out'[p] = GetErrorResponse(ErrOTPNotFound)
                   /\ t = "Expired" => out'[p] = GetErrorResponse(ErrOTPExpired)
                   /\ t = "Incorrect" => out'[p] = IncorrectResponse
                   /\ t # "Valid" => Outcome(out'[p]) = t
                   /\ t = "Valid" => pc'[p] = "del"
             /\ DelBody(p) =>
                   (out'[p] = ValidResponse /\ Outcome(out'[p]) = "Valid")]_vars

\* one validation was answered "OTP has expired" and another "OTP not found"
C12_Witness ==
    \E p, q \in Procs :
        /\ pc[p] = "idle" /\ out[p] = GetErrorResponse(ErrOTPExpired)
        /\ pc[q] = "idle" /\ out[q] = GetErrorResponse(ErrOTPNotFound)

\* ------------------------------------------------------------------ C13
\* the number a string of decimal digits stands for
RECURSIVE DigitsValue(_)
DigitsValue(s) ==
    IF s = << >> THEN 0
    ELSE 10 * DigitsValue(SubSeq(s, 1, Len(s) - 1))
         + (CHOOSE d \in 0..9 : DigitChars[d + 1] = s[Len(s)])

\* C13: the code generateSecureOTP returns is exactly 4 ASCII digits standing
\* for an integer in 1000..9999, for every 16-bit value of the secure source
\* and for every fallback draw in 0..8999; it always returns a code.
C13_FourDigits ==
    gen.code # NoCode =>
        /\ Len(gen.code) = 4
        /\ \A k \in 1..4 : \E d \in 1..10 : gen.code[k] = DigitChars[d]
        /\ DigitsValue(gen.code) \in 1000..9999
        /\ gen.ok => DigitsValue(gen.code) = (Uint16(gen.b) % 9000) + 1000
        /\ ~gen.ok => DigitsValue(gen.code) = 1000 + gen.draw

\* the largest 16-bit value, 65535, has given the code "3535"
C13_Witness ==
    /\ gen.ok /\ gen.b = <<255, 255>>
    /\ gen.code = <<"3", "5", "3", "5">>

\* ------------------------------------------------------------------ C14
\* the number of 16-bit values for which the primary path returns code c
PreimageCount(c) == Cardinality({b \in Bytes \X Bytes : SecureCode(b) = c})

\* C14: on the primary path every code in 1000..9999 is returned for the same
\* number of the 65536 16-bit values: a returned code has as many as "9999".
C14_Uniform ==
    (gen.ok /\ gen.code # NoCode) =>
        PreimageCount(gen.code) = PreimageCount(<<"9", "9", "9", "9">>)

\* ------------------------------------------------------------------ C15
\* the request goroutines inside the body of SetOTP, GetOTP or DeleteOTP
InTable == {p \in Procs : pc[p] \in {"setL", "getL", "delL"}}

\* C15: at most one of SetOTP, GetOTP, DeleteOTP and the sweep of cleanup is
\* inside its access to the table, and the one inside holds c.mu.
C15_MutualExclusion ==
    /\ Cardinality(InTable) + (IF cpc = "sweep" THEN 1 ELSE 0) <= 1
    /\ \A p \in InTable : mu = p
    /\ cpc = "sweep" => mu = Cleaner
    /\ mu = NoHolder => (InTable = {} /\ cpc # "sweep")

\* one request is inside DeleteOTP while another request on the same phone and
\* cleanup both wait for c.mu
C15_Witness ==
    \E p, q \in Procs :
        /\ pc[p] = "delL" /\ pc[q] = "del"
        /\ req[p].phone = req[q].phone
        /\ cpc = "lock"

\* ------------------------------------------------------------------ C16
\* C16: when SetOTP(i, c2) has replaced the entry between a validation's
\* GetOTP(i) returning c1 and its DeleteOTP(i), the DeleteOTP leaves the
\* entry with c2 in the table.
C16_ValidRemovesOnlyMatched ==
    [][\A p \in Procs : DelBody(p) =>
          LET i == req[p].phone IN
          (~fresh[p] /\ i \in DOMAIN store /\ store[i].otp # req[p].otp) =>
              (i \in DOMAIN store' /\ store'[i] = store[i])]_vars

\* ------------------------------------------------------------------ C17
\* C17: a sweep removes every entry past its expiresAt and no other: an entry
\* not past its expiresAt is in the table after the sweep with the same code
\* and expiresAt, and the sweep adds nothing.
C17_SweepExact ==
    [][CleanupSweep =>
          /\ DOMAIN store' \subseteq DOMAIN store
          /\ \A i \in DOMAIN store :
                /\ After(Now, store[i].expiresAt) => i \notin DOMAIN store'
                /\ ~After(Now, store[i].expiresAt) =>
                      (i \in DOMAIN store' /\ store'[i] = store[i])]_vars

\* cleanup is sweeping a table with an entry past its expiresAt and an entry
\* at the instant of its expiresAt
C17_Witness ==
    /\ cpc = "sweep"
    /\ \E i, j \in DOMAIN store :
          store[i].expiresAt < Now /\ store[j].expiresAt = Now

\* ------------------------------------------------------------------ C18
\* the table restricted to the phones in S
Restrict(st, S) == [q \in DOMAIN st \cap S |-> st[q]]

\* C18: SetOTP(i), GetOTP(i) and DeleteOTP(i), alone or inside a validation
\* of i, neither add, change nor remove the entry of another phone, and what
\* they return and leave for i is what they return and leave on a table
\* holding the entry of i alone, however the requests interleave.
C18_Independent ==
    [][\A p \in Procs : (SetBody(p) \/ GetBody(p) \/ DelBody(p)) =>
          LET i == req[p].phone
              own == Restrict(store, {i})
              g == GetOTP(own, i, Now) IN
          /\ Restrict(store', Phones \ {i}) = Restrict(store, Phones \ {i})
          /\ SetBody(p) =>
                Restrict(store', {i}) = SetOTP(own, i, req[p].otp, Now).store
          /\ GetBody(p) =>
                /\ Restrict(store', {i}) = g.store
                /\ out'[p] = AfterGet(g, req[p].otp)
          /\ DelBody(p) =>
                Restrict(store', {i}) = DeleteOTP(own, i).store]_vars

\* two validations of different phones have both read their code, and both
\* entries are in the table
C18_Witness ==
    \E p, q \in Procs :
        /\ pc[p] = "del" /\ pc[q] = "del"
        /\ req[p].phone # req[q].phone
        /\ DOMAIN store = {req[p].phone, req[q].phone}

\* ------------------------------------------------------------------ C19
\* C19: GetOTP(i) on an entry not past its expiresAt returns the stored code
\* and leaves the whole table as it was, so a GetOTP(i) repeated at once
\* returns the same code and the entry keeps its expiresAt.
C19_GetReadOnly ==
    [][\A p \in Procs : GetBody(p) =>
          LET i == req[p].phone
              r == GetOTP(store, i, Now) IN
          Live(i) =>
              /\ r = [store |-> store, val |-> store[i].otp, err |-> ErrNil]
              /\ store' = store
              /\ GetOTP(store', i, Now) = r]_vars

\* two validations have read the same code of the same entry one after the
\* other, and the entry is still in the table
C19_Witness ==
    \E p, q \in Procs :
        /\ p # q
        /\ pc[p] = "del" /\ pc[q] = "del"
        /\ fresh[p] /\ fresh[q]
        /\ req[p].phone = req[q].phone
        /\ Live(req[p].phone)
        /\ store[req[p].phone].otp = req[p].otp

\* ------------------------------------------------------------------ C20
\* C20: DeleteOTP(i) returns no error whether or not i has an entry, leaves
\* no entry for i so that GetOTP(i) fails with "OTP not found", and a second
\* DeleteOTP(i) returns the same and leaves the same table.
C20_DeleteIdempotent ==
    [][\A p \in Procs : DelBody(p) =>
          LET i == req[p].phone
              r == DeleteOTP(store, i) IN
          /\ r.err = ErrNil
          /\ store' = r.store
          /\ i \notin DOMAIN store'
          /\ GetOTP(store', i, Now) = [store |-> store', val |-> "", err |-> ErrOTPNotFound]
          /\ DeleteOTP(store', i) = r
          /\ out'[p] = ValidResponse]_vars

\* two validations have each deleted the entry of phone i after the same
\* SetOTP, the second finding no entry
C20_Witness ==
    \E i \in Phones : valids[i] = 2 /\ i \notin DOMAIN store

\* ------------------------------------------------------------------ C21
\* C21: SetOTP, GetOTP (its "OTP not found" and "OTP expired" returns
\* included), DeleteOTP and the sweep each end with c.mu unlocked; c.mu is
\* held only by a goroutine inside one of them, so cleanup holds no lock
\* between sweeps; and every cache method and sweep that has started, waiting
\* for c.mu or holding it, completes: each goroutine is outside them again
\* and again.
C21_NoDeadlock ==
    /\ [][/\ \A p \in Procs : (SetBody(p) \/ GetBody(p) \/ DelBody(p)) =>
                 (mu = p /\ mu' = NoHolder)
          /\ CleanupSweep => (mu = Cleaner /\ mu' = NoHolder)]_vars
    /\ [](/\ \A p \in Procs : mu = p => pc[p] \in {"setL", "getL", "delL"}
          /\ mu = Cleaner <=> cpc = "sweep")
    /\ \A p \in Procs : []<>(pc[p] = "idle")
    /\ []<>(cpc = "wait")

\* GetOTP has returned "OTP expired" to one validation and "OTP not found" to
\* another, and cleanup has taken c.mu after them
C21_Witness ==
    \E p, q \in Procs :
        /\ pc[p] = "idle" /\ out[p] = GetErrorResponse(ErrOTPExpired)
        /\ pc[q] = "idle" /\ out[q] = GetErrorResponse(ErrOTPNotFound)
        /\ mu = Cleaner

====
